---- MODULE Spec2Model ----
(***************************************************************************)
(* Model of the Gorch workspace index service (IndexService), the Go       *)
(* struct scanner it calls (GoUtils.findAllGoStructs) and the file-change  *)
(* debounce that schedules rebuilds; and of the diagnostic provider        *)
(* (GorchDiagnosticProvider), which reads the index and the text of a      *)
(* document and stores that document's diagnostics.                        *)
(*                                                                         *)
(* The extension host is single threaded: a handler runs until its next    *)
(* await.  Every action below is one such run-to-completion segment.  An   *)
(* activation of the async function refreshIndex is a task; the segments   *)
(* of one task are separated by the awaited file listings and document     *)
(* reads, between which timers, file-change events and other requests may  *)
(* run.                                                                    *)
(***************************************************************************)
EXTENDS Integers, Sequences, FiniteSets, TLC

\* ---------------------------------------------------------------- bounds
TickMs == 500              \* granularity of the modelled clock, in ms
MaxTicks == 3              \* the clock stops after this many ticks
MaxTimers == 2             \* debounce timers outstanding at once
MaxTasks == 2              \* activations of refreshIndex that can coexist
MaxOps == 2                \* operator declarations in an index drawn as input
MaxTokens == 4             \* tokens in a document text drawn as input

\* ------------------------------------------------------ program constants
Delay == 1000              \* setTimeout(..., 1000) in onFileChanged

StartTime == TickMs
EndTime == StartTime + MaxTicks * TickMs

\* ------------------------------------------------------------- workspace
\* findFiles lists documents in a fixed order.
GorchDocs == <<"a.gorch", "b.gorch">>
GoDocs == <<"x.go", "y.go">>

Range(s) == {s[i] : i \in 1..Len(s)}
AllDocs == Range(GorchDocs) \cup Range(GoDocs)
\* the documents that are created, changed and deleted, and whose read can fail
VolatileDocs == {"a.gorch", "x.go"}
TaskIds == 1..MaxTasks

RECURSIVE SelectSeqIn(_, _)
SelectSeqIn(s, S) ==
    IF s = <<>> THEN <<>>
    ELSE IF Head(s) \in S THEN <<Head(s)>> \o SelectSeqIn(Tail(s), S)
         ELSE SelectSeqIn(Tail(s), S)

\* The declarations the extractors find in each document's text.
ParseOperators(doc) ==
    IF doc = "a.gorch"
    THEN << [name |-> "op1", structName |-> "S1", sequence |-> "1", documentUri |-> doc] >>
    ELSE << [name |-> "op2", structName |-> "S2", sequence |-> "2", documentUri |-> doc] >>

ParseFragments(doc) ==
    IF doc = "a.gorch"
    THEN << [name |-> "f1", documentUri |-> doc] >>
    ELSE << >>

ParseGoStructs(doc) ==
    IF doc = "x.go"
    THEN << [name |-> "S1", uri |-> doc] >>
    ELSE << [name |-> "S2", uri |-> doc] >>

VARIABLES
    indexInfo,          \* IndexService.indexInfo
    updateInProgress,   \* IndexService.updateInProgress
    pendingUpdates,     \* IndexService.pendingUpdates
    timers,             \* outstanding setTimeout callbacks of onFileChanged: their due times, oldest first
    now,                \* Date.now()
    disk,               \* which documents exist in the workspace
    tasks,              \* the activations of refreshIndex
    returned,           \* the IndexUpdateResult the last step returned to its caller, if it returned one
    ev,                 \* what the last step was
    swaps,              \* how often the queries' answers changed during the latest rebuild (2: twice or more)
    lastSuccess,        \* declarations in the index when a rebuild last returned success
    burst,              \* bookkeeping of the current burst of change notifications
    lost,               \* a notification came during a rebuild and nothing was requested since
    readLog,            \* documents the latest rebuild was listed, read, and failed to read
    text,               \* the text of each .gorch document, as its tokens
    open,               \* vscode.workspace.textDocuments: the .gorch documents that are open
    diagnostics,        \* GorchDiagnosticProvider.diagnosticCollection
    lastDiag,           \* the documents the last step ran updateDiagnostics on
    nextRun,            \* per document: is its latest diagnostics run the first since a rebuild read every document
    prevRun,            \* what the last successful rebuild read, and whether the one before read the same
    nav,                \* the activation of EnhancedDefinitionProvider.provideDefinition
    held                \* the value a caller holds from an index accessor, and the arrays it shares with the index

\* the state of the diagnostic provider and of the editor's documents
dvars == <<text, open, diagnostics, lastDiag, nextRun, prevRun>>

vars == <<indexInfo, updateInProgress, pendingUpdates, timers, now, disk, tasks,
          returned, ev, swaps, lastSuccess, burst, lost, readLog,
          text, open, diagnostics, lastDiag, nextRun, prevRun, nav, held>>

IdleTask == [pc |-> "idle", files |-> <<>>, allStructs |-> <<>>, errors |-> <<>>]

Decls(ix) == [operators |-> ix.operators, fragments |-> ix.fragments, goStructs |-> ix.goStructs]

NoResult == [success |-> FALSE, operatorsCount |-> 0, fragmentsCount |-> 0,
             goStructsCount |-> 0, errors |-> <<>>]

\* no burst of notifications is being followed
BurstOff == [on |-> FALSE, first |-> 0, clean |-> FALSE, quiet |-> FALSE,
             n |-> 0, starts |-> 0, early |-> FALSE]

\* ------------------------------------------------------------ document text
\* A text is the sequence of the tokens that the provider's regular expressions tell
\* apart.  word is the identifier that stands before an open parenthesis, gap says
\* that white space separates the two, arg is the quoted argument.
Register == [k |-> "register", word |-> "REGISTER", gap |-> FALSE, arg |-> "pkg"]   \* REGISTER("pkg") {
NestedBraces == [k |-> "nested", word |-> "", gap |-> FALSE, arg |-> ""]            \* { }
CloseBrace == [k |-> "close", word |-> "", gap |-> FALSE, arg |-> ""]               \* }
Call(name, gap) == [k |-> "call", word |-> name, gap |-> gap, arg |-> ""]           \* name(  or  name (
Unfold(name) == [k |-> "unfold", word |-> "UNFOLD", gap |-> FALSE, arg |-> name]    \* UNFOLD("name")

\* the text of the workspace's .gorch documents besides their declarations
DocText(doc) ==
    IF doc = "a.gorch"
    THEN << Call("op2", FALSE) >>
    ELSE << Unfold("f1"), Call("op1", FALSE) >>

\* ------------------------------------------------------------------- start
EmptyIndex == [operators |-> <<>>, fragments |-> <<>>, goStructs |-> <<>>,
               lastUpdated |-> 0, version |-> "1.0.0"]

AllExist == [d \in AllDocs |-> TRUE]

NoRun == [n |-> 0, ok |-> {}, goListed |-> FALSE, same |-> FALSE]

\* no definition is being looked up
NavIdle == [pc |-> "idle", kind |-> "none", word |-> "", inBlock |-> FALSE, tool |-> FALSE,
            target |-> "", log |-> <<>>, result |-> [via |-> "pending", uri |-> "none"]]

\* no caller holds a value of an accessor
NoHandle == [from |-> "none", shared |-> {}, value |-> <<>>]

\* the index service after its construction, on the index ix and the workspace dk
ServiceInit(ix, dk) ==
    /\ indexInfo = ix
    /\ updateInProgress = FALSE
    /\ pendingUpdates = {}
    /\ timers = <<>>
    /\ now = StartTime
    /\ disk = dk
    /\ tasks = [t \in TaskIds |-> IdleTask]
    /\ returned = NoResult
    /\ ev = "init"
    /\ swaps = 0
    /\ lastSuccess = Decls(indexInfo)
    /\ burst = BurstOff
    /\ lost = FALSE
    /\ readLog = [ok |-> {}, failed |-> {}, listed |-> {}]

\* the diagnostic provider after its construction, the documents having the texts tx
\* and those in op being open
EditorInit(tx, op) ==
    /\ text = tx
    /\ open = op
    /\ diagnostics = [d \in Range(GorchDocs) |-> <<>>]
    /\ lastDiag = {}
    /\ nextRun = [d \in Range(GorchDocs) |-> "other"]
    /\ prevRun = NoRun
    /\ nav = NavIdle
    /\ held = NoHandle

Init ==
    /\ ServiceInit(EmptyIndex, AllExist)
    /\ EditorInit([d \in Range(GorchDocs) |-> DocText(d)], {})


\* ------------------------------------------------------------ index queries
getAllOperators(ix) == ix.operators
getAllFragments(ix) == ix.fragments
getAllGoStructs(ix) == ix.goStructs

\* Array.prototype.find: the first element with the name, or undefined
FindByName(s, name) ==
    IF \E i \in 1..Len(s) : s[i].name = name
    THEN s[CHOOSE i \in 1..Len(s) : s[i].name = name /\ \A j \in 1..(i - 1) : s[j].name # name]
    ELSE "undefined"

\* Array.prototype.find returns an element, not undefined
HasName(s, name) == \E i \in 1..Len(s) : s[i].name = name

findOperatorByName(ix, name) == FindByName(ix.operators, name)
findFragmentByName(ix, name) == FindByName(ix.fragments, name)
findGoStructByName(ix, name) == FindByName(ix.goStructs, name)

QueryNames == {"op1", "op2", "f1", "S1", "S2", "nosuch"}

\* what the six queries return on an index
QueryView(ix) ==
    [all |-> <<getAllOperators(ix), getAllFragments(ix), getAllGoStructs(ix)>>,
     byName |-> [nm \in QueryNames |->
                   <<findOperatorByName(ix, nm), findFragmentByName(ix, nm), findGoStructByName(ix, nm)>>]]

\* the answers of the queries differ: one more change seen during this rebuild
Bump(ix) == IF QueryView(ix) # QueryView(indexInfo) THEN (IF swaps = 0 THEN 1 ELSE 2) ELSE swaps

\* ------------------------------------------------------------ refreshIndex
Active == {t \in TaskIds : tasks[t].pc # "idle"}
HasFree == \E t \in TaskIds : tasks[t].pc = "idle"
FreeTask == CHOOSE t \in TaskIds : tasks[t].pc = "idle" /\ \A u \in TaskIds : tasks[u].pc = "idle" => t <= u

IsBusy_Never == FALSE

\* if (this.updateInProgress)
IsBusy == updateInProgress

BusyResult_NoError ==
    [success |-> FALSE, operatorsCount |-> 0, fragmentsCount |-> 0,
     goStructsCount |-> 0, errors |-> <<>>]

\* the record returned to a request that finds a rebuild in progress
BusyResult ==
    [success |-> FALSE, operatorsCount |-> 0, fragmentsCount |-> 0,
     goStructsCount |-> 0, errors |-> << [kind |-> "Update already in progress", doc |-> "none"] >>]

Reject_InsideTry ==
    /\ returned' = BusyResult
    /\ updateInProgress' = FALSE
    /\ pendingUpdates' = {}
    /\ UNCHANGED <<indexInfo, tasks, swaps, lastSuccess, readLog>>

\* refreshIndex, a rebuild being in progress: the early return before the try block
Reject ==
    /\ returned' = BusyResult
    /\ UNCHANGED <<indexInfo, updateInProgress, pendingUpdates, tasks, swaps, lastSuccess, readLog>>

Cleared_KeepOperators(ix) == [ix EXCEPT !.fragments = <<>>, !.goStructs = <<>>]

Cleared_KeepFragments(ix) == [ix EXCEPT !.operators = <<>>, !.goStructs = <<>>]

\* this.indexInfo.operators = []; this.indexInfo.fragments = []; this.indexInfo.goStructs = []
Cleared(ix) == [ix EXCEPT !.operators = <<>>, !.fragments = <<>>, !.goStructs = <<>>]

\* refreshIndex, no rebuild in progress: from the flag being set to the first await,
\* the listing of the .gorch files in updateGorchIndex
Accept ==
    /\ HasFree
    /\ updateInProgress' = TRUE
    /\ indexInfo' = Cleared(indexInfo)
    /\ tasks' = [tasks EXCEPT ![FreeTask] = [IdleTask EXCEPT !.pc = "findGorch"]]
    /\ readLog' = [ok |-> {}, failed |-> {}, listed |-> {}]
    /\ returned' = NoResult
    /\ swaps' = IF QueryView(indexInfo') # QueryView(indexInfo) THEN 1 ELSE 0
    /\ UNCHANGED <<pendingUpdates, lastSuccess>>

RefreshIndexCall == IF IsBusy THEN Reject ELSE Accept

PendingAfterFinally_Kept == pendingUpdates

\* finally { this.pendingUpdates.clear() }
PendingAfterFinally == {}

ResultOf(ix, ok, errs) ==
    [success |-> ok, operatorsCount |-> Len(ix.operators), fragmentsCount |-> Len(ix.fragments),
     goStructsCount |-> Len(ix.goStructs), errors |-> errs]

\* the awaited call returned and the rebuild goes on to its next await
Continue(t, ix, task, label) ==
    /\ indexInfo' = ix
    /\ tasks' = [tasks EXCEPT ![t] = task]
    /\ ev' = label
    /\ returned' = NoResult
    /\ swaps' = Bump(ix)
    /\ UNCHANGED <<updateInProgress, pendingUpdates, lastSuccess>>

\* the end of the try block: time stamp, result record, then the finally block
\* (the diagnostics update requested there reads the index and writes none of this state)
Finish(t, ix, errs, label) ==
    /\ indexInfo' = [ix EXCEPT !.lastUpdated = now]
    /\ returned' = ResultOf(ix, TRUE, errs)
    /\ updateInProgress' = FALSE
    /\ pendingUpdates' = PendingAfterFinally
    /\ tasks' = [tasks EXCEPT ![t] = IdleTask]
    /\ lastSuccess' = Decls(ix)
    /\ swaps' = Bump(ix)
    /\ ev' = label

Fail_NoFinally(t) ==
    /\ returned' = ResultOf(indexInfo, FALSE,
                            Append(tasks[t].errors, [kind |-> "Index update failed", doc |-> "none"]))
    /\ tasks' = [tasks EXCEPT ![t] = IdleTask]
    /\ ev' = "failed"
    /\ UNCHANGED <<indexInfo, lastSuccess, swaps, updateInProgress, pendingUpdates>>

\* the catch block, then the finally block
Fail(t) ==
    /\ returned' = ResultOf(indexInfo, FALSE,
                            Append(tasks[t].errors, [kind |-> "Index update failed", doc |-> "none"]))
    /\ updateInProgress' = FALSE
    /\ pendingUpdates' = PendingAfterFinally
    /\ tasks' = [tasks EXCEPT ![t] = IdleTask]
    /\ ev' = "failed"
    /\ UNCHANGED <<indexInfo, lastSuccess, swaps>>

Existing(docs) == SelectSeqIn(docs, {d \in AllDocs : disk[d]})

\* openTextDocument(f) resolves (TRUE) or rejects (FALSE)
ReadOutcomes(f) == {b \in BOOLEAN : (b => disk[f]) /\ (f \notin VolatileDocs => b)}

\* a burst that is over is forgotten at the next step
BurstRest == IF burst.on THEN burst ELSE BurstOff

\* updateGorchIndex: the listing of the .gorch files returns, or throws
FindGorchFiles(t) ==
    /\ tasks[t].pc = "findGorch"
    /\ \E ok \in BOOLEAN :
        IF ok
        THEN /\ Continue(t, indexInfo,
                         [tasks[t] EXCEPT !.files = Existing(GorchDocs),
                                          !.pc = IF Existing(GorchDocs) = <<>> THEN "findGo" ELSE "openGorch"],
                         "listed")
             /\ readLog' = [readLog EXCEPT !.listed = @ \cup Range(Existing(GorchDocs))]
        ELSE Fail(t) /\ UNCHANGED readLog
    /\ burst' = BurstRest
    /\ UNCHANGED <<timers, now, disk, lost>>

\* updateGorchIndex: one .gorch document is opened and parsed, or its read fails
OpenGorch(t) ==
    /\ tasks[t].pc = "openGorch"
    /\ LET f == Head(tasks[t].files)
           rest == Tail(tasks[t].files)
       IN \E ok \in ReadOutcomes(f) :
            /\ Continue(t,
                        IF ok
                        THEN [indexInfo EXCEPT !.operators = @ \o ParseOperators(f),
                                               !.fragments = @ \o ParseFragments(f)]
                        ELSE indexInfo,
                        [tasks[t] EXCEPT !.files = rest,
                                         !.pc = IF rest = <<>> THEN "findGo" ELSE "openGorch",
                                         !.errors = IF ok THEN @
                                                    ELSE Append(@, [kind |-> "Failed to parse", doc |-> f])],
                        IF ok THEN "read" ELSE "readFailed")
            /\ readLog' = IF ok THEN [readLog EXCEPT !.ok = @ \cup {f}]
                          ELSE [readLog EXCEPT !.failed = @ \cup {f}]
    /\ burst' = BurstRest
    /\ UNCHANGED <<timers, now, disk, lost>>

\* updateGoIndex and findAllGoStructs: the listing of the .go files returns, or throws
\* and is caught by updateGoIndex
FindGoFiles(t) ==
    /\ tasks[t].pc = "findGo"
    /\ \E ok \in BOOLEAN :
        IF ok /\ Existing(GoDocs) # <<>>
        THEN /\ Continue(t, indexInfo, [tasks[t] EXCEPT !.files = Existing(GoDocs), !.pc = "openGo"],
                         "listed")
             /\ readLog' = [readLog EXCEPT !.listed = @ \cup Range(Existing(GoDocs))]
        ELSE IF ok
        THEN /\ Finish(t, [indexInfo EXCEPT !.goStructs = <<>>], tasks[t].errors, "succeeded")
             /\ UNCHANGED readLog
        ELSE /\ Finish(t, indexInfo,
                       Append(tasks[t].errors, [kind |-> "Failed to update Go index", doc |-> "none"]),
                       "succeeded")
             /\ UNCHANGED readLog
    /\ burst' = BurstRest
    /\ UNCHANGED <<timers, now, disk, lost>>

\* findAllGoStructs and parseGoStructsFromFile: one .go document is opened and parsed,
\* or its read fails and is logged; after the last one the structs are stored
OpenGo(t) ==
    /\ tasks[t].pc = "openGo"
    /\ LET f == Head(tasks[t].files)
           rest == Tail(tasks[t].files)
       IN \E ok \in ReadOutcomes(f) :
            LET structs == IF ok THEN tasks[t].allStructs \o ParseGoStructs(f)
                           ELSE tasks[t].allStructs
            IN /\ readLog' = IF ok THEN [readLog EXCEPT !.ok = @ \cup {f}]
                             ELSE [readLog EXCEPT !.failed = @ \cup {f}]
               /\ IF rest = <<>>
                  THEN Finish(t, [indexInfo EXCEPT !.goStructs = structs], tasks[t].errors,
                              "succeeded")
                  ELSE Continue(t, indexInfo,
                                [tasks[t] EXCEPT !.files = rest, !.allStructs = structs],
                                IF ok THEN "read" ELSE "readFailed")
    /\ burst' = BurstRest
    /\ UNCHANGED <<timers, now, disk, lost>>

\* the gorch.refreshIndex command, and initializeIndex at activation
ManualRefresh ==
    /\ RefreshIndexCall
    /\ ev' = IF IsBusy THEN "rejected" ELSE "manualStart"
    /\ burst' = IF burst.on THEN [BurstOff EXCEPT !.on = TRUE] ELSE BurstOff
    /\ lost' = FALSE
    /\ UNCHANGED <<timers, now, disk>>

\* ------------------------------------------------------------ file watcher
ScheduleTimer_None == timers

\* setTimeout(() => {...}, 1000)
ScheduleTimer == Append(timers, now + Delay)

\* a notification joins the burst being followed, or starts one
BurstOnNotify ==
    IF burst.on /\ burst.clean
    THEN IF ~updateInProgress /\ now < burst.first + Delay
         THEN [burst EXCEPT !.n = 2]
         ELSE [BurstOff EXCEPT !.on = TRUE]
    ELSE IF updateInProgress
         THEN [BurstOff EXCEPT !.on = TRUE]
         ELSE [on |-> TRUE, first |-> now, clean |-> TRUE,
               quiet |-> (timers = <<>>), n |-> 1, starts |-> 0, early |-> FALSE]

\* a document is created, changed or deleted and the watcher calls onFileChanged
FileChanged(uri, type) ==
    /\ Len(timers) < MaxTimers
    /\ now + Delay <= EndTime
    /\ disk[uri] = (type # "created")
    /\ disk' = [disk EXCEPT ![uri] = (type # "deleted")]
    /\ pendingUpdates' = pendingUpdates \cup {uri}
    /\ timers' = ScheduleTimer
    /\ ev' = "notify"
    /\ returned' = NoResult
    /\ burst' = BurstOnNotify
    /\ lost' = updateInProgress
    /\ UNCHANGED <<indexInfo, updateInProgress, tasks, now, swaps, lastSuccess, readLog>>

TimerGuard_NoPendingCheck == ~updateInProgress

\* if (!this.updateInProgress && this.pendingUpdates.size > 0)
TimerGuard == ~updateInProgress /\ pendingUpdates # {}

TimersAfterDrop_Retry == Append(Tail(timers), now + Delay)

\* the callback returns without a rebuild: nothing is scheduled again
TimersAfterDrop == Tail(timers)

\* a timer of the burst being followed has fired
BurstOnTimer(started, left) ==
    IF burst.on /\ burst.clean
    THEN [burst EXCEPT !.on = (left # <<>>),
                       !.starts = IF started THEN (IF @ = 0 THEN 1 ELSE 2) ELSE @,
                       !.early = @ \/ (started /\ now < burst.first + Delay)]
    ELSE IF burst.on /\ left # <<>> THEN burst ELSE BurstOff

\* the oldest debounce timer is due and its callback runs
TimerFire ==
    /\ timers # <<>>
    /\ Head(timers) <= now
    /\ IF TimerGuard
       THEN /\ RefreshIndexCall
            /\ timers' = Tail(timers)
            /\ ev' = IF IsBusy THEN "timerRejected" ELSE "timerStart"
       ELSE /\ timers' = TimersAfterDrop
            /\ ev' = IF updateInProgress THEN "dropped" ELSE "noPending"
            /\ returned' = NoResult
            /\ UNCHANGED <<indexInfo, updateInProgress, pendingUpdates, tasks,
                           swaps, lastSuccess, readLog>>
    /\ burst' = BurstOnTimer(ev' = "timerStart", timers')
    /\ UNCHANGED <<now, disk, lost>>

\* time passes until the oldest timer is due (the clock is read only for the timers
\* and the time stamp, so it need not run on when no timer is waiting)
Tick ==
    /\ timers # <<>>
    /\ Head(timers) > now
    /\ now' = now + TickMs
    /\ ev' = "tick"
    /\ returned' = NoResult
    /\ burst' = BurstRest
    /\ UNCHANGED <<indexInfo, updateInProgress, pendingUpdates, timers, disk, tasks,
                   swaps, lastSuccess, lost, readLog>>

\* ------------------------------------------------------ diagnostic provider
RECURSIVE Ascending(_)
\* the numbers of S, smallest first
Ascending(S) ==
    IF S = {} THEN <<>>
    ELSE LET m == CHOOSE x \in S : \A y \in S : x <= y
         IN <<m>> \o Ascending(S \ {m})

RECURSIVE Flatten(_)
Flatten(ss) == IF ss = <<>> THEN <<>> ELSE Head(ss) \o Flatten(Tail(ss))

\* parseInt, on the digit strings that the operators of this model carry
parseInt(str) ==
    CASE str = "0" -> 0
      [] str = "00" -> 0
      [] str = "1" -> 1
      [] str = "01" -> 1
      [] str = "2" -> 2

\* the decimal numeral of a sequence number, as a template string writes it
Numeral(n) == CASE n = 0 -> "0" [] n = 1 -> "1" [] n = 2 -> "2"

\* String.prototype.trim, on the names of this model
trim(str) == IF str = " " THEN "" ELSE str

\* the last segment of the URI's path; the documents lie in the workspace's folder
getFileNameFromUri(uri) ==
    CASE uri = "a.gorch" -> "a.gorch"
      [] uri = "b.gorch" -> "b.gorch"
      [] OTHER -> "unknown"

\* isKeyword
Keywords == {"START", "FRAGMENT", "REGISTER", "OPERATOR", "ON_FINISH", "UNFOLD",
             "GO", "WAIT", "SKIP", "SWITCH", "CASE", "WRAP", "NO_CHECK_MISS"}
isKeyword(word) == word \in Keywords

Diagnostic(code, at, subject, found) ==
    [code |-> code, at |-> at, subject |-> subject, found |-> found]

\* the file names that a duplicate message lists: those of every operator of the group
duplicateInfo(ops, group) ==
    [m \in 1..Len(group) |-> getFileNameFromUri(ops[group[m]].documentUri)]

currentDocOperators_All(ops, group, d) == group

\* ops.filter(op => op.documentUri === document.uri.toString()), on the places of a group
currentDocOperators(ops, group, d) == SelectSeq(group, LAMBDA j : ops[j].documentUri = d)

SequenceCounts_All(seq) == TRUE

\* if (seq > 0)
SequenceCounts(seq) == seq > 0

SameSequence_InDocument(ops, i) ==
    Ascending({j \in 1..Len(ops) : /\ parseInt(ops[j].sequence) = parseInt(ops[i].sequence)
                                   /\ ops[j].documentUri = ops[i].documentUri})

\* sequenceMap.get(seq): the places of the operators with the sequence of the i-th
SameSequence(ops, i) ==
    Ascending({j \in 1..Len(ops) : parseInt(ops[j].sequence) = parseInt(ops[i].sequence)})

\* the keys of sequenceMap in the order of their insertion, each as the place of its
\* first operator
SequenceKeys(ops) ==
    Ascending({i \in 1..Len(ops) :
                 /\ SequenceCounts(parseInt(ops[i].sequence))
                 /\ \A j \in 1..(i - 1) : parseInt(ops[j].sequence) # parseInt(ops[i].sequence)})

checkOperatorSequenceUniqueness(ops, d) ==
    LET keys == SequenceKeys(ops)
        ofGroup(i) ==
            LET group == SameSequence(ops, i)
                cur == currentDocOperators(ops, group, d)
            IN IF Len(group) > 1
               THEN [n \in 1..Len(cur) |->
                       Diagnostic("duplicate-sequence", <<"operator", cur[n]>>,
                                  Numeral(parseInt(ops[i].sequence)), duplicateInfo(ops, group))]
               ELSE <<>>
    IN Flatten([k \in 1..Len(keys) |-> ofGroup(keys[k])])

NameCounts_Any(name) == TRUE

\* if (op.name && op.name.trim())
NameCounts(name) == name # "" /\ trim(name) # ""

\* nameMap.get(name)
SameName(ops, i) == Ascending({j \in 1..Len(ops) : ops[j].name = ops[i].name})

NameKeys(ops) ==
    Ascending({i \in 1..Len(ops) :
                 /\ NameCounts(ops[i].name)
                 /\ \A j \in 1..(i - 1) : ops[j].name # ops[i].name})

checkOperatorNameUniqueness(ops, d) ==
    LET keys == NameKeys(ops)
        ofGroup(i) ==
            LET group == SameName(ops, i)
                cur == currentDocOperators(ops, group, d)
            IN IF Len(group) > 1
               THEN [n \in 1..Len(cur) |->
                       Diagnostic("duplicate-name", <<"operator", cur[n]>>,
                                  ops[i].name, duplicateInfo(ops, group))]
               ELSE <<>>
    IN Flatten([k \in 1..Len(keys) |-> ofGroup(keys[k])])

\* the token holds a closing brace
HasClose(tok) == tok.k \in {"close", "nested"}

RECURSIVE RangesFrom(_, _)
\* the matches of /REGISTER\s*\([^)]+\)\s*\{([\s\S]*?)\}/g from a place on: each runs from
\* a REGISTER header to the first closing brace after it, and the search goes on behind it
RangesFrom(txt, from) ==
    LET starts == {i \in from..Len(txt) :
                     txt[i].k = "register" /\ \E j \in (i + 1)..Len(txt) : HasClose(txt[j])}
    IN IF starts = {} THEN {}
       ELSE LET i == CHOOSE x \in starts : \A y \in starts : x <= y
                ends == {j \in (i + 1)..Len(txt) : HasClose(txt[j])}
                j == CHOOSE x \in ends : \A y \in ends : x <= y
            IN {<<i, j>>} \cup RangesFrom(txt, j + 1)

getRegisterBlockRanges(txt) == RangesFrom(txt, 1)

isInRegisterBlock(p, registerRanges) == \E r \in registerRanges : r[1] <= p /\ p <= r[2]

\* the matches of /\b([a-zA-Z_][a-zA-Z0-9_]*)\s*\(/g: every identifier before an open
\* parenthesis, white space between them or not
checkUnregisteredOperators(txt, registeredOperators) ==
    LET registeredNames == {registeredOperators[i].name : i \in 1..Len(registeredOperators)}
        registerRanges == getRegisterBlockRanges(txt)
        hits == Ascending({p \in 1..Len(txt) :
                             /\ txt[p].word # ""
                             /\ ~(isKeyword(txt[p].word) \/ isInRegisterBlock(p, registerRanges))
                             /\ txt[p].word \notin registeredNames})
    IN [n \in 1..Len(hits) |->
          Diagnostic("unregistered-operator", <<"token", hits[n]>>, txt[hits[n]].word, <<>>)]

\* the matches of /UNFOLD\s*\(\s*"([^"]+)"\s*\)/g
checkUnfoldFragmentMatching(txt, allFragments) ==
    LET fragmentNames == {allFragments[i].name : i \in 1..Len(allFragments)}
        hits == Ascending({p \in 1..Len(txt) :
                             txt[p].k = "unfold" /\ txt[p].arg \notin fragmentNames})
    IN [n \in 1..Len(hits) |->
          Diagnostic("fragment-not-found", <<"token", hits[n]>>, txt[hits[n]].arg, <<>>)]

\* findGoStructByName(name) returns a struct, not undefined
hasGoStruct(ix, name) == \E i \in 1..Len(ix.goStructs) : ix.goStructs[i].name = name

checkGoStructExistence(ix, allOperators, d) ==
    LET cur == currentDocOperators(allOperators,
                                   [i \in 1..Len(allOperators) |-> i], d)
        hits == SelectSeq(cur, LAMBDA j : ~hasGoStruct(ix, allOperators[j].structName))
    IN [n \in 1..Len(hits) |->
          Diagnostic("go-struct-not-found", <<"operator", hits[n]>>,
                     allOperators[hits[n]].structName, <<>>)]

\* the list that updateDiagnostics builds for the document d with the text txt
\* (checkOperatorGoStructWarnings, called last, has an empty body)
Diagnose(ix, txt, d) ==
    LET allOperators == getAllOperators(ix)
        allFragments == getAllFragments(ix)
    IN checkOperatorSequenceUniqueness(allOperators, d)
       \o checkOperatorNameUniqueness(allOperators, d)
       \o checkUnregisteredOperators(txt, allOperators)
       \o checkUnfoldFragmentMatching(txt, allFragments)
       \o checkGoStructExistence(ix, allOperators, d)

SetDiagnostics_Append(coll, d, ds) == [coll EXCEPT ![d] = @ \o ds]

\* this.diagnosticCollection.set(document.uri, diagnostics)
SetDiagnostics(coll, d, ds) == [coll EXCEPT ![d] = ds]

\* updateDiagnostics(document), the document d having the text txt
updateDiagnostics(d, txt) ==
    /\ diagnostics' = SetDiagnostics(diagnostics, d, Diagnose(indexInfo, txt, d))
    /\ lastDiag' = {d}
    /\ nextRun' = [nextRun EXCEPT ![d] = IF @ = "await" THEN "first" ELSE "other"]
    /\ returned' = NoResult
    /\ UNCHANGED <<indexInfo, updateInProgress, pendingUpdates, timers, now, disk, tasks,
                   swaps, lastSuccess, burst, lost, readLog, prevRun, nav, held>>

\* a .gorch document is opened in the editor: the onDidOpenTextDocument listener
OpenDocument(d) ==
    /\ d \notin open
    /\ disk[d]
    /\ open' = open \cup {d}
    /\ updateDiagnostics(d, text[d])
    /\ ev' = "opened"
    /\ UNCHANGED text

\* the editor disposes of a document that no editor shows; no listener of the extension
CloseDocument(d) ==
    /\ d \in open
    /\ open' = open \ {d}
    /\ lastDiag' = {}
    /\ ev' = "closed"
    /\ returned' = NoResult
    /\ UNCHANGED <<indexInfo, updateInProgress, pendingUpdates, timers, now, disk, tasks,
                   swaps, lastSuccess, burst, lost, readLog, text, diagnostics, nextRun,
                   prevRun, nav, held>>

\* the last token of an open document is deleted: the onDidChangeTextDocument listener
ChangeDocument(d) ==
    /\ d \in open
    /\ text[d] # <<>>
    /\ text' = [text EXCEPT ![d] = SubSeq(@, 1, Len(@) - 1)]
    /\ updateDiagnostics(d, text'[d])
    /\ ev' = "changed"
    /\ UNCHANGED open

\* the step runs no updateDiagnostics and touches no document
ProviderIdle ==
    /\ lastDiag' = {}
    /\ UNCHANGED <<text, open, diagnostics, nextRun, prevRun, nav, held>>

\* ------------------------------------------------- the index service by itself
\* The diagnostic provider reads the index and writes none of the service's state, so
\* its runs are left out here and followed in LiveSpec and DiagSpec.
Next ==
    \/ ManualRefresh /\ ProviderIdle
    \/ \E uri \in VolatileDocs, type \in {"created", "changed", "deleted"} :
          FileChanged(uri, type) /\ ProviderIdle
    \/ TimerFire /\ ProviderIdle
    \/ Tick /\ ProviderIdle
    \/ \E t \in TaskIds : FindGorchFiles(t) /\ ProviderIdle
    \/ \E t \in TaskIds : OpenGorch(t) /\ ProviderIdle
    \/ \E t \in TaskIds : FindGoFiles(t) /\ ProviderIdle
    \/ \E t \in TaskIds : OpenGo(t) /\ ProviderIdle

Spec == Init /\ [][Next]_vars

\* ---------------------------------------------------- the service, scheduled
\* every awaited listing or read of a rebuild returns or fails in the end
RebuildProgress ==
    \E t \in TaskIds :
        (FindGorchFiles(t) \/ OpenGorch(t) \/ FindGoFiles(t) \/ OpenGo(t)) /\ ProviderIdle

\* time passes and a timer that is due fires: the event loop runs its callbacks
TimerProgress == (Tick \/ TimerFire) /\ ProviderIdle

BusySpec == Spec /\ WF_vars(RebuildProgress)

FairSpec == Spec /\ WF_vars(RebuildProgress) /\ WF_vars(TimerProgress)

\* ------------------------------------- rebuilds and diagnostics of open documents
\* The workspace does not change; rebuilds are requested by hand; documents are opened
\* and disposed of at any time.

\* the workspaces in which each of the volatile documents exists or not
Workspaces == {dk \in [AllDocs -> BOOLEAN] : \A d \in AllDocs \ VolatileDocs : dk[d]}

LiveInit ==
    \E dk \in Workspaces :
        /\ ServiceInit(EmptyIndex, dk)
        /\ EditorInit([d \in Range(GorchDocs) |-> DocText(d)], {})

triggerDiagnosticsUpdate_None(ix) == diagnostics

\* triggerDiagnosticsUpdate and the gorch.internal.updateDiagnostics command: one
\* updateDiagnostics on every open .gorch document, the index being ix
triggerDiagnosticsUpdate(ix) ==
    [d \in Range(GorchDocs) |->
        IF d \in open THEN SetDiagnostics(diagnostics, d, Diagnose(ix, text[d], d))[d]
        ELSE diagnostics[d]]

\* the listing of the .go files did not throw in the rebuild with these errors
GoListed(errs) == \A i \in 1..Len(errs) : errs[i].kind # "Failed to update Go index"

\* what a step of refreshIndex means to the provider: a rebuild that returns success has
\* triggered the diagnostics of the open documents, on the index it leaves
\* (nextRun: a document awaits its next run once a rebuild has returned success with
\* every listed .gorch document read; for an open document that run is the triggered one)
RebuildStep ==
    /\ diagnostics' = IF ev' = "succeeded" THEN triggerDiagnosticsUpdate(indexInfo')
                       ELSE diagnostics
    /\ lastDiag' = IF ev' = "succeeded" THEN open ELSE {}
    /\ nextRun' = IF ev' = "succeeded" /\ readLog'.failed \cap Range(GorchDocs) = {}
                   THEN [d \in Range(GorchDocs) |-> IF d \in open THEN "first" ELSE "await"]
                   ELSE IF ev' = "succeeded"
                   THEN [d \in Range(GorchDocs) |-> "other"]
                   ELSE nextRun
    /\ prevRun' = IF ev' = "succeeded"
                   THEN [n |-> IF prevRun.n = 0 THEN 1 ELSE 2,
                         ok |-> readLog'.ok,
                         goListed |-> GoListed(returned'.errors),
                         same |-> /\ prevRun.n >= 1
                                  /\ prevRun.ok = readLog'.ok
                                  /\ prevRun.goListed = GoListed(returned'.errors)]
                   ELSE IF ev' = "failed" THEN NoRun
                   ELSE prevRun
    /\ UNCHANGED <<text, open, nav, held>>

\* openTextDocument resolves with a document that is open: the editor has loaded it and
\* the onDidOpenTextDocument listener has run before the rebuild goes on
ReadIsOfOpen(t) == ev' = "read" => Head(tasks[t].files) \in open

LiveNext ==
    \/ ManualRefresh /\ ProviderIdle
    \/ \E t \in TaskIds : FindGorchFiles(t) /\ RebuildStep
    \/ \E t \in TaskIds : OpenGorch(t) /\ ReadIsOfOpen(t) /\ RebuildStep
    \/ \E t \in TaskIds : FindGoFiles(t) /\ RebuildStep
    \/ \E t \in TaskIds : OpenGo(t) /\ RebuildStep
    \/ \E d \in Range(GorchDocs) : OpenDocument(d)
    \/ \E d \in Range(GorchDocs) : CloseDocument(d)

LiveSpec == LiveInit /\ [][LiveNext]_vars

\* --------------------------------------- the diagnostics of one document, as a function
\* The index and the texts are drawn as inputs; documents are opened and edited.

\* the struct that an operator of the drawn indexes names: S1 is in the index, S3 is not
StructFor(name) == IF name = "op2" THEN "S3" ELSE "S1"

OperatorInputs ==
    {[name |-> n, structName |-> StructFor(n), sequence |-> q, documentUri |-> d] :
        n \in {"op1", "op2", " "}, q \in {"0", "00", "1", "01", "2"}, d \in Range(GorchDocs)}

TokenInputs ==
    {Register, NestedBraces, CloseBrace, Call("op1", FALSE), Call("nosuch", FALSE),
     Call("nosuch", TRUE), Call("WAIT", FALSE), Unfold("f1"), Unfold("f2")}

SeqsUpTo(S, n) == UNION {[1..k -> S] : k \in 0..n}

\* the index a successful rebuild leaves, with these operators
SnapshotOf(ops) ==
    [operators |-> ops, fragments |-> ParseFragments("a.gorch"),
     goStructs |-> ParseGoStructs("x.go"), lastUpdated |-> StartTime, version |-> "1.0.0"]

DiagInit ==
    \/ \E ops \in SeqsUpTo(OperatorInputs, MaxOps) :
          /\ ServiceInit(SnapshotOf(ops), AllExist)
          /\ EditorInit([d \in Range(GorchDocs) |-> <<>>], {})
    \/ \E txt \in SeqsUpTo(TokenInputs, MaxTokens) \ {<<>>} :
          /\ ServiceInit(SnapshotOf(ParseOperators("a.gorch")), AllExist)
          /\ EditorInit([d \in Range(GorchDocs) |->
                            IF d = "a.gorch" THEN txt ELSE << Call("nosuch", FALSE) >>], {})

DiagNext ==
    \/ \E d \in Range(GorchDocs) : OpenDocument(d)
    \/ \E d \in Range(GorchDocs) : ChangeDocument(d)

DiagSpec == DiagInit /\ [][DiagNext]_vars

\* ------------------------------------------------------ definition provider
\* One activation of provideDefinition, from the cursor's context to the value it returns.
\* Its segments are separated by the awaited calls: the Go extension's answer, the scan
\* of the .go files, the opening of a fragment's document.

NoLocation == [via |-> "none", uri |-> "none"]
Failure == [via |-> "error", uri |-> "none"]
Location(via, uri) == [via |-> via, uri |-> uri]

\* one consultation of a source of struct locations, and whether it gave one
Consulted(tier, found) == [tier |-> tier, found |-> found]

\* a segment of provideDefinition ends and leaves the activation as nv
NavStep(nv) ==
    /\ nav' = nv
    /\ ev' = "definition"
    /\ UNCHANGED <<indexInfo, updateInProgress, pendingUpdates, timers, now, disk, tasks,
                   returned, swaps, lastSuccess, burst, lost, readLog,
                   text, open, diagnostics, lastDiag, nextRun, prevRun, held>>

\* the activation returns the value r
Returns(nv, r) == [nv EXCEPT !.pc = "done", !.result = r]

\* the .go documents of the workspace in which a struct of this name is declared
DeclaringGoDocs(name) ==
    SelectSeq(Existing(GoDocs),
              LAMBDA f : \E i \in 1..Len(ParseGoStructs(f)) : ParseGoStructs(f)[i].name = name)

IndexFirst_Skipped(nv) == [nv EXCEPT !.pc = "ext2"]

\* const goStruct = this.indexService.findGoStructByName(structName); if found, its
\* location is returned, else validateGoStruct is called and awaits the Go extension
IndexFirst(nv) ==
    LET goStruct == findGoStructByName(indexInfo, nv.target)
        found == HasName(indexInfo.goStructs, nv.target)
        logged == [nv EXCEPT !.log = Append(@, Consulted("index", found))]
    IN IF found
       THEN Returns(logged, Location("index", goStruct.uri))
       ELSE [logged EXCEPT !.pc = "ext2"]

\* handleOperatorCallDefinition, up to its return or its first await
OperatorCall(nv) ==
    IF isKeyword(nv.word) \/ nv.inBlock
    THEN Returns(nv, NoLocation)
    ELSE LET operator == findOperatorByName(indexInfo, nv.word)
         IN IF ~HasName(indexInfo.operators, nv.word)
            THEN Returns(nv, NoLocation)
            ELSE IndexFirst([nv EXCEPT !.target = operator.structName])

\* provideDefinition, from the call to its return or its first await
ProvideDefinition ==
    /\ nav.pc = "idle"
    /\ nav.kind # "none"
    /\ NavStep(CASE nav.kind = "noword" -> Returns(nav, NoLocation)
                 [] nav.kind = "keyword" -> Returns(nav, NoLocation)
                 [] nav.kind = "structArg" -> [nav EXCEPT !.pc = "ext1", !.target = nav.word]
                 [] nav.kind = "unfoldArg" ->
                      IF HasName(indexInfo.fragments, nav.word)
                      THEN [nav EXCEPT !.pc = "openFragment", !.target = nav.word]
                      ELSE OperatorCall(nav)
                 [] nav.kind = "call" -> OperatorCall(nav))

\* what findStructUsingGoExtension resolves to: undefined without the extension or after
\* a caught error, else the locations that the extension's definition provider gives
GoExtensionAnswers(nv) ==
    IF ~nv.tool THEN {"undefined"}
    ELSE {"undefined", "empty"} \cup (IF DeclaringGoDocs(nv.target) # <<>> THEN {"found"} ELSE {})

\* the awaited GoUtils.findStructUsingGoExtension returns: in handleOperatorDefinition
\* (ext1), followed by the index lookup, or in validateGoStruct (ext2), followed by the scan
GoExtension ==
    /\ nav.pc \in {"ext1", "ext2"}
    /\ \E r \in GoExtensionAnswers(nav) :
          LET logged == [nav EXCEPT !.log = Append(@, Consulted("go-extension", r = "found"))]
          IN NavStep(IF r = "found"
                     THEN Returns(logged, Location("go-extension", Head(DeclaringGoDocs(nav.target))))
                     ELSE IF nav.pc = "ext1" THEN IndexFirst(logged)
                     ELSE [logged EXCEPT !.pc = "scan"])

RECURSIVE ScannedStructs(_, _)
\* findAllGoStructs over the listed files, reads being the files whose read succeeds
ScannedStructs(files, reads) ==
    IF files = <<>> THEN <<>>
    ELSE (IF Head(files) \in reads THEN ParseGoStructs(Head(files)) ELSE <<>>)
         \o ScannedStructs(Tail(files), reads)

\* validateGoStruct after the Go extension gave nothing: findAllGoStructs lists and reads
\* the .go files, or its listing throws, which nothing on the way to provideDefinition
\* catches
LiveScan ==
    /\ nav.pc = "scan"
    /\ \E listed \in BOOLEAN :
          IF ~listed THEN NavStep(Returns(nav, Failure))
          ELSE \E reads \in SUBSET Range(Existing(GoDocs)) :
                  /\ \A f \in Range(Existing(GoDocs)) : (f \in reads) \in ReadOutcomes(f)
                  /\ LET allStructs == ScannedStructs(Existing(GoDocs), reads)
                         struct == FindByName(allStructs, nav.target)
                         found == HasName(allStructs, nav.target)
                         logged == [nav EXCEPT !.log = Append(@, Consulted("scan", found))]
                     IN NavStep(IF found
                                THEN Returns(logged, Location("real-time-scan", struct.uri))
                                ELSE Returns(logged, NoLocation))

\* handleUnfoldDefinition: the awaited openTextDocument of the fragment's document
\* resolves, or rejects, which nothing catches
OpenFragmentDocument ==
    /\ nav.pc = "openFragment"
    /\ LET fragment == findFragmentByName(indexInfo, nav.target)
       IN \E ok \in ReadOutcomes(fragment.documentUri) :
             NavStep(IF ok THEN Returns(nav, Location("index", fragment.documentUri))
                     ELSE Returns(nav, Failure))

\* the cursor's contexts: no word under it, a keyword, the struct name of an OPERATOR
\* entry, the name in an UNFOLD, or any other word, inside a REGISTER range or not
NavContexts ==
    {[kind |-> "noword", word |-> "", inBlock |-> FALSE],
     [kind |-> "keyword", word |-> "WAIT", inBlock |-> FALSE]}
    \cup {[kind |-> "structArg", word |-> w, inBlock |-> TRUE] : w \in {"S1", "S2", "S9"}}
    \cup {[kind |-> "unfoldArg", word |-> w, inBlock |-> FALSE] : w \in {"f1", "f9", "op1"}}
    \cup {[kind |-> "call", word |-> w, inBlock |-> b] : w \in {"op1", "op2", "nosuch"}, b \in BOOLEAN}

\* the indexes that rebuilds of these workspaces leave, current or stale
NavIndexes ==
    {[EmptyIndex EXCEPT !.operators = o, !.fragments = f, !.goStructs = g] :
        o \in {<<>>, ParseOperators("a.gorch"), ParseOperators("a.gorch") \o ParseOperators("b.gorch")},
        f \in {<<>>, ParseFragments("a.gorch")},
        g \in {<<>>, ParseGoStructs("x.go"), ParseGoStructs("x.go") \o ParseGoStructs("y.go")}}

DefInit ==
    \E ix \in NavIndexes, dk \in Workspaces, c \in NavContexts, t \in BOOLEAN :
        /\ ServiceInit(ix, dk)
        /\ text = [d \in Range(GorchDocs) |-> DocText(d)]
        /\ open = {}
        /\ diagnostics = [d \in Range(GorchDocs) |-> <<>>]
        /\ lastDiag = {}
        /\ nextRun = [d \in Range(GorchDocs) |-> "other"]
        /\ prevRun = NoRun
        /\ held = NoHandle
        /\ nav = [NavIdle EXCEPT !.kind = c.kind, !.word = c.word, !.inBlock = c.inBlock, !.tool = t]

DefNext ==
    \/ ProvideDefinition
    \/ GoExtension
    \/ LiveScan
    \/ OpenFragmentDocument

DefSpec == DefInit /\ [][DefNext]_vars

\* ------------------------------------------------------ declaration extractor
\* parseOperators and parseFragments on the text of a document, one token a line.

\* OPERATOR("p", "struct", "name", seq)  and  OPERATOR("p", "struct", seq)
Entry4(struct, name, seq) ==
    [k |-> "entry", word |-> "OPERATOR", gap |-> FALSE, arg |-> <<"p", struct, name, seq>>]
Entry3(struct, seq) ==
    [k |-> "entry", word |-> "OPERATOR", gap |-> FALSE, arg |-> <<"p", struct, seq>>]
\* FRAGMENT("name") {
FragmentOpen(name) == [k |-> "fragment", word |-> "FRAGMENT", gap |-> FALSE, arg |-> name]

\* /OPERATOR\s*\(\s*"([^"]+)"\s*,\s*"([^"]+)"\s*,\s*"([^"]+)"\s*,\s*(\d+)\s*\)/g matches
\* the token: three quoted arguments and a number
OperatorRegexMatches(tok) == tok.k = "entry" /\ Len(tok.arg) = 4

\* the OperatorInfo built from a match
OperatorOf(tok, doc) ==
    [name |-> tok.arg[Len(tok.arg) - 1], structName |-> tok.arg[2],
     sequence |-> tok.arg[Len(tok.arg)], documentUri |-> doc]

\* the operators that operatorRegex finds in the body of one match of registerRegex,
\* the tokens between the header at i and the closing brace in the token at j
OperatorsInBlock(txt, i, j, doc) ==
    LET hits == Ascending({q \in (i + 1)..(j - 1) : OperatorRegexMatches(txt[q])})
    IN [n \in 1..Len(hits) |-> OperatorOf(txt[hits[n]], doc)]

\* parseOperators(document)
parseOperators(txt, doc) ==
    LET starts == Ascending({r[1] : r \in RangesFrom(txt, 1)})
        endOf(i) == CHOOSE j \in 1..Len(txt) : <<i, j>> \in RangesFrom(txt, 1)
    IN Flatten([n \in 1..Len(starts) |-> OperatorsInBlock(txt, starts[n], endOf(starts[n]), doc)])

RECURSIVE BraceCount(_, _, _)
\* findMatchingBrace's braceCount behind the token j, counting from the opening brace
\* that ends the token at start; 0 once the count has reached 0
BraceCount(txt, start, j) ==
    IF j = start THEN 1
    ELSE LET before == BraceCount(txt, start, j - 1)
         IN IF before = 0 THEN 0
            ELSE before + (CASE txt[j].k \in {"register", "fragment"} -> 1
                             [] txt[j].k = "close" -> -1
                             [] OTHER -> 0)

\* findMatchingBrace(text, startIndex): the line of the brace at which the count reaches
\* 0, or undefined (0 here) when it never does
findMatchingBrace(txt, start) ==
    LET ends == {j \in (start + 1)..Len(txt) : BraceCount(txt, start, j) = 0}
    IN IF ends = {} THEN 0 ELSE CHOOSE j \in ends : \A e \in ends : j <= e

\* parseFragments(document)
parseFragments(txt, doc) ==
    LET hits == Ascending({q \in 1..Len(txt) : txt[q].k = "fragment"})
    IN [n \in 1..Len(hits) |->
          [name |-> txt[hits[n]].arg, documentUri |-> doc, startLine |-> hits[n],
           endLine |-> IF findMatchingBrace(txt, hits[n]) # 0
                       THEN findMatchingBrace(txt, hits[n]) ELSE hits[n]]]

\* updateGorchIndex's loop body for one document: it is opened and what the two parsers
\* find in its text is pushed to the index
IndexDocument(d) ==
    /\ d \notin readLog.ok
    /\ disk[d]
    /\ indexInfo' = [indexInfo EXCEPT !.operators = @ \o parseOperators(text[d], d),
                                      !.fragments = @ \o parseFragments(text[d], d)]
    /\ readLog' = [readLog EXCEPT !.ok = @ \cup {d}, !.listed = @ \cup {d}]
    /\ ev' = "read"
    /\ UNCHANGED <<updateInProgress, pendingUpdates, timers, now, disk, tasks,
                   returned, swaps, lastSuccess, burst, lost,
                   text, open, diagnostics, lastDiag, nextRun, prevRun, nav, held>>

DeclTokens ==
    {Register, NestedBraces, CloseBrace, Entry4("S1", "op1", "1"), Entry3("S2", "2"),
     FragmentOpen("f1")}

ParseInit ==
    \E txt \in SeqsUpTo(DeclTokens, MaxTokens) :
        /\ ServiceInit(EmptyIndex, AllExist)
        /\ EditorInit([d \in Range(GorchDocs) |->
                          IF d = "a.gorch" THEN txt
                          ELSE << Register, Entry4("S2", "op2", "2"), CloseBrace >>], {})

ParseNext == \E d \in Range(GorchDocs) : IndexDocument(d)

ParseSpec == ParseInit /\ [][ParseNext]_vars

\* ------------------------------------------------------------- index accessors
\* What a caller holds after a call of an accessor: the lists it can reach through the
\* returned value, and which of them are the very arrays of indexInfo.
MaxHeld == 2               \* a caller adds to a list it holds up to this length

ListFields == {"operators", "fragments", "goStructs"}

\* what the caller of a list accessor holds: [...list] is a new array with the elements
\* of the index's
NewArray(accessor, field, list) ==
    [from |-> accessor, shared |-> {}, value |-> [f \in {field} |-> list]]

\* return { ...this.indexInfo }: a new object whose properties hold the values of
\* indexInfo's properties, for the three lists the arrays themselves
getIndexInfo ==
    [from |-> "getIndexInfo", shared |-> ListFields,
     value |-> [f \in ListFields |-> indexInfo[f]]]

\* a caller calls an accessor and keeps what it returns
Get ==
    /\ \E h \in {NewArray("getAllOperators", "operators", getAllOperators(indexInfo)),
                 NewArray("getAllFragments", "fragments", getAllFragments(indexInfo)),
                 NewArray("getAllGoStructs", "goStructs", getAllGoStructs(indexInfo)),
                 getIndexInfo} :
          held' = h
    /\ ev' = "get"
    /\ UNCHANGED <<indexInfo, updateInProgress, pendingUpdates, timers, now, disk, tasks,
                   returned, swaps, lastSuccess, burst, lost, readLog,
                   text, open, diagnostics, lastDiag, nextRun, prevRun, nav>>

Foreign == [name |-> "foreign", documentUri |-> "none"]

\* Array.prototype.push, pop and reverse on a list
Mutated(how, list) ==
    CASE how = "push" -> Append(list, Foreign)
      [] how = "pop" -> SubSeq(list, 1, Len(list) - 1)
      [] how = "reverse" -> [n \in 1..Len(list) |-> list[Len(list) + 1 - n]]

\* the caller changes a list it holds in place; an array that is also indexInfo's is
\* changed for the index as well
Mutate ==
    /\ \E f \in DOMAIN held.value, how \in {"push", "pop", "reverse"} :
          /\ how = "push" => Len(held.value[f]) < MaxHeld
          /\ how = "pop" => held.value[f] # <<>>
          /\ held' = [held EXCEPT !.value[f] = Mutated(how, @)]
          /\ indexInfo' = IF f \in held.shared
                          THEN [indexInfo EXCEPT ![f] = Mutated(how, @)]
                          ELSE indexInfo
    /\ ev' = "mutate"
    /\ UNCHANGED <<updateInProgress, pendingUpdates, timers, now, disk, tasks,
                   returned, swaps, lastSuccess, burst, lost, readLog,
                   text, open, diagnostics, lastDiag, nextRun, prevRun, nav>>

CopyInit ==
    \E ix \in NavIndexes :
        /\ ServiceInit(ix, AllExist)
        /\ EditorInit([d \in Range(GorchDocs) |-> DocText(d)], {})

CopyNext == Get \/ Mutate

CopySpec == CopyInit /\ [][CopyNext]_vars

\* ------------------------------------------------------------------ claims
RequestEvs == {"manualStart", "rejected"}
TimerEvs == {"timerStart", "timerRejected", "dropped", "noPending"}
StartEvs == {"manualStart", "timerStart"}
EndEvs == {"succeeded", "failed"}
ErrorDocs(errs) == {errs[i].doc : i \in 1..Len(errs)}

\* C1: at most one activation of refreshIndex is between its start and its completion,
\* and updateInProgress is true exactly while one is.
C1_OneRebuildAtATime ==
    /\ Cardinality(Active) <= 1
    /\ updateInProgress <=> (Active # {})

\* a request and a timer both came while a rebuild was running
C1_Witness == updateInProgress /\ Cardinality(Active) = 1 /\ ev = "dropped" /\ timers # <<>>

\* C2: a request made while a rebuild is active returns at once success=false with exactly
\* one error, and starts or schedules nothing: tasks, timers and pending set are as before.
C2_BusyRejected ==
    [][(Active # {} /\ ev' \in RequestEvs) =>
          /\ ev' = "rejected"
          /\ returned'.success = FALSE
          /\ Len(returned'.errors) = 1
          /\ returned'.errors[1].kind = "Update already in progress"
          /\ tasks' = tasks
          /\ timers' = timers
          /\ pendingUpdates' = pendingUpdates]_vars

C2_Witness == ev = "rejected" /\ Active # {} /\ Len(returned.errors) = 1

\* C3: from the start of a rebuild to its completion the answers of the six queries
\* change at most once, from those on the last finished rebuild's index to those on the
\* new one: no query sees an emptied or partly filled index in between.
C3_NoTornRead == swaps <= 1

\* C4: after a rebuild that ends success=false by an exception, the declarations the
\* queries return are those of the last successful rebuild.
C4_FailedKeepsIndex == ev = "failed" => Decls(indexInfo) = lastSuccess

\* C5: a request rejected as busy leaves the declarations, lastUpdated, the busy flag and
\* the pending set as they were.
C5_RejectChangesNothing ==
    [][ev' = "rejected" =>
          /\ indexInfo' = indexInfo
          /\ updateInProgress' = updateInProgress
          /\ pendingUpdates' = pendingUpdates]_vars

C5_Witness == ev = "rejected" /\ updateInProgress /\ pendingUpdates # {}

\* C6 as stated: for a burst of notifications that all arrive before the first one's
\* delay has elapsed, with no rebuild active and no manual refresh, the timers start no
\* rebuild before the delay has elapsed since the first, and exactly one in all.
C6_Original ==
    burst.clean =>
        /\ ~burst.early
        /\ burst.starts <= 1
        /\ (~burst.on /\ burst.n > 0) => burst.starts = 1

\* C6 amended: the same, for a burst whose first notification finds no timer of an
\* earlier notification outstanding.
C6_Coalesced ==
    (burst.clean /\ burst.quiet) =>
        /\ ~burst.early
        /\ burst.starts <= 1
        /\ (~burst.on /\ burst.n > 0) => burst.starts = 1

\* a burst of several notifications is over and has started its one rebuild
C6_Witness == ~burst.on /\ burst.clean /\ burst.quiet /\ burst.n = 2 /\ burst.starts = 1

\* C7: a timer firing during a rebuild starts nothing and schedules nothing; and after a
\* notification received during a rebuild no rebuild starts until a further notification
\* or a manual request arrives.
C7_DroppedNotRetried ==
    [][/\ (updateInProgress /\ ev' \in TimerEvs) =>
              /\ ev' = "dropped"
              /\ Len(timers') = Len(timers) - 1
              /\ tasks' = tasks
              /\ indexInfo' = indexInfo
              /\ pendingUpdates' = pendingUpdates
       /\ (lost /\ lost') => ev' \notin StartEvs]_vars

\* the notification that came during a rebuild has had its timer fire and nothing started
C7_Witness == lost /\ ~updateInProgress /\ timers = <<>> /\ ev = "noPending"

\* C8: at most one debounce timer is outstanding.
C8_OneTimer == Len(timers) <= 1

\* C9: the pending set is empty right after an accepted rebuild completes, whether it
\* succeeded or failed; it grows only by notifications; a rejected request leaves it.
C9_PendingCleared ==
    [][/\ ev' \in EndEvs => pendingUpdates' = {}
       /\ ~(pendingUpdates' \subseteq pendingUpdates) => ev' = "notify"
       /\ ev' = "rejected" => pendingUpdates' = pendingUpdates]_vars

C9_Witness == ev = "failed" /\ pendingUpdates = {} /\ timers # <<>>

\* C10: when a rebuild returns, every document whose read failed has an entry in the
\* result's errors, and the declarations of every document that was read are in the index.
C10_ReadFailuresReported ==
    ev = "succeeded" =>
        /\ readLog.failed \subseteq ErrorDocs(returned.errors)
        /\ \A d \in readLog.ok \cap Range(GorchDocs) :
              /\ Range(ParseOperators(d)) \subseteq Range(indexInfo.operators)
              /\ Range(ParseFragments(d)) \subseteq Range(indexInfo.fragments)
        /\ \A d \in readLog.ok \cap Range(GoDocs) :
              Range(ParseGoStructs(d)) \subseteq Range(indexInfo.goStructs)

\* the declarations of the index ix that name the document d as theirs
OperatorsOf(ix, d) == SelectSeq(ix.operators, LAMBDA o : o.documentUri = d)
FragmentsOf(ix, d) == SelectSeq(ix.fragments, LAMBDA f : f.documentUri = d)
StructsOf(ix, d) == SelectSeq(ix.goStructs, LAMBDA g : g.uri = d)

\* C11: when a rebuild returns success, every declaration in the index is of a document
\* that the rebuild's listing of the workspace held (one that existed then), and the index
\* holds for each document either nothing or what the extractor finds in it, once: no
\* declaration of an earlier rebuild is left and none is there twice.
C11_NoStaleDeclarations ==
    ev = "succeeded" =>
        /\ readLog.ok \subseteq readLog.listed
        /\ \A d \in Range(GorchDocs) :
              /\ OperatorsOf(indexInfo, d) = IF d \in readLog.ok THEN ParseOperators(d) ELSE <<>>
              /\ FragmentsOf(indexInfo, d) = IF d \in readLog.ok THEN ParseFragments(d) ELSE <<>>
        /\ \A d \in Range(GoDocs) :
              StructsOf(indexInfo, d) = IF d \in readLog.ok THEN ParseGoStructs(d) ELSE <<>>
        /\ \A i \in 1..Len(indexInfo.operators) : indexInfo.operators[i].documentUri \in readLog.listed
        /\ \A i \in 1..Len(indexInfo.fragments) : indexInfo.fragments[i].documentUri \in readLog.listed
        /\ \A i \in 1..Len(indexInfo.goStructs) : indexInfo.goStructs[i].uri \in readLog.listed

\* a document was deleted after an earlier rebuild had indexed it, and the next rebuild
\* has returned success without its declarations
C11_Witness ==
    /\ ev = "succeeded"
    /\ ~disk["a.gorch"]
    /\ "a.gorch" \notin readLog.listed
    /\ indexInfo.operators = ParseOperators("b.gorch")
    /\ indexInfo.fragments = <<>>

Names(decls) == {decls[i].name : i \in 1..Len(decls)}

\* the rebuild that left the index ix and returned res produced the names and the counts
\* of the rebuild that left the declarations prev
SameOutcome(ix, res, prev) ==
    /\ Names(ix.operators) = Names(prev.operators)
    /\ Names(ix.fragments) = Names(prev.fragments)
    /\ Names(ix.goStructs) = Names(prev.goStructs)
    /\ res.operatorsCount = Len(prev.operators)
    /\ res.fragmentsCount = Len(prev.fragments)
    /\ res.goStructsCount = Len(prev.goStructs)

C13_VersionIncreases ==
    [][ev' = "succeeded" => indexInfo'.version # indexInfo.version]_vars

\* how many diagnostics of the list ds have this code and this target
CountOf(ds, code, at) == Cardinality({n \in 1..Len(ds) : ds[n].code = code /\ ds[n].at = at})
\* how many diagnostics of the list ds have this code
CountCode(ds, code) == Cardinality({n \in 1..Len(ds) : ds[n].code = code})
\* the j-th operator shares its name with another declaration
SharesName(ops, j) == \E i \in 1..Len(ops) : i # j /\ ops[i].name = ops[j].name
\* the name is empty or only white space
Blank(name) == name \in {"", " "}
\* the places of the operators that should have a duplicate-name diagnostic in d
NameConflictsIn(ops, d) == {j \in 1..Len(ops) : ops[j].documentUri = d /\ SharesName(ops, j)}

\* C14 as stated: the diagnostics of a document hold exactly one duplicate-name entry for
\* each operator of that document that shares its name with another declaration of the
\* index, and no other duplicate-name entry.
C14_Original ==
    \A d \in lastDiag :
        LET ops == indexInfo.operators
            ds == diagnostics[d]
        IN /\ \A j \in 1..Len(ops) :
                 CountOf(ds, "duplicate-name", <<"operator", j>>) =
                    IF j \in NameConflictsIn(ops, d) THEN 1 ELSE 0
           /\ CountCode(ds, "duplicate-name") = Cardinality(NameConflictsIn(ops, d))

\* C14 amended: the same for names that are not blank; operators whose name is empty or
\* only white space get no duplicate-name entry.
C14_DuplicateName ==
    \A d \in lastDiag :
        LET ops == indexInfo.operators
            ds == diagnostics[d]
            conflicts == {j \in NameConflictsIn(ops, d) : ~Blank(ops[j].name)}
        IN /\ \A j \in 1..Len(ops) :
                 CountOf(ds, "duplicate-name", <<"operator", j>>) =
                    IF j \in conflicts THEN 1 ELSE 0
           /\ CountCode(ds, "duplicate-name") = Cardinality(conflicts)

\* two operators of the diagnosed document share a name and each has its one entry
C14_Witness ==
    /\ lastDiag = {"a.gorch"}
    /\ Len(indexInfo.operators) = 2
    /\ \A j \in 1..2 : /\ indexInfo.operators[j].name = "op1"
                       /\ indexInfo.operators[j].documentUri = "a.gorch"
                       /\ CountOf(diagnostics["a.gorch"], "duplicate-name", <<"operator", j>>) = 1

\* the operators at the places i and j have the same name and the same sequence number,
\* which is not 0
SameNameAndSequence(ops, i, j) ==
    /\ i # j
    /\ ops[i].name = ops[j].name
    /\ parseInt(ops[i].sequence) = parseInt(ops[j].sequence)
    /\ parseInt(ops[j].sequence) # 0

\* the list ds has exactly one diagnostic with this code for the j-th operator, and its
\* message names the files of the j-th and of the i-th operator
OneNamingBoth(ds, code, ops, i, j) ==
    /\ CountOf(ds, code, <<"operator", j>>) = 1
    /\ \A n \in 1..Len(ds) :
          (ds[n].code = code /\ ds[n].at = <<"operator", j>>) =>
             {getFileNameFromUri(ops[i].documentUri), getFileNameFromUri(ops[j].documentUri)}
                \subseteq Range(ds[n].found)

SameSequenceNumber(ops, i, j) ==
    /\ i # j
    /\ parseInt(ops[i].sequence) = parseInt(ops[j].sequence)
    /\ parseInt(ops[j].sequence) # 0

ZeroSequence(seq) == seq \in {"0", "00"}

\* C16: the diagnostics of a document hold no duplicate-sequence entry for an operator
\* whose sequence is 0, however many operators of the index have the sequence 0.
C16_ZeroIsSentinel ==
    \A d \in lastDiag :
        LET ops == indexInfo.operators
        IN \A j \in 1..Len(ops) :
              ZeroSequence(ops[j].sequence) =>
                 CountOf(diagnostics[d], "duplicate-sequence", <<"operator", j>>) = 0

\* two operators with the sequence 0, one of them in the diagnosed document, and no
\* duplicate-sequence entry
C16_Witness ==
    /\ lastDiag = {"a.gorch"}
    /\ Len(indexInfo.operators) = 2
    /\ indexInfo.operators[1].documentUri = "a.gorch"
    /\ indexInfo.operators[2].documentUri = "b.gorch"
    /\ indexInfo.operators[1].sequence = "0"
    /\ indexInfo.operators[2].sequence = "00"
    /\ CountCode(diagnostics["a.gorch"], "duplicate-sequence") = 0

RECURSIVE OpenBlocks(_, _)
\* how many registration blocks are open behind the j-th token, counting braces: a
\* REGISTER header opens one, a closing brace closes one, a nested pair leaves the count
OpenBlocks(txt, j) ==
    IF j = 0 THEN 0
    ELSE OpenBlocks(txt, j - 1) + (CASE txt[j].k = "register" -> 1
                                     [] txt[j].k = "close" -> -1
                                     [] OTHER -> 0)

\* every closing brace closes a registration block and every block is closed
WellBraced(txt) ==
    /\ \A j \in 1..Len(txt) : OpenBlocks(txt, j) >= 0
    /\ OpenBlocks(txt, Len(txt)) = 0

\* the p-th token is a call that lies outside every registration block, is no keyword
\* and names no operator of the index
UnregisteredCall(txt, p, ops) ==
    /\ txt[p].k = "call"
    /\ OpenBlocks(txt, p - 1) = 0
    /\ txt[p].word \notin Keywords
    /\ txt[p].word \notin Names(ops)

\* C17: the diagnostics of a document hold exactly one unregistered-operator entry at a
\* token if the token is an identifier followed by an open parenthesis, lies outside
\* every registration block of the document, is no reserved keyword and names no
\* operator of the index, and none at any other token.  Blocks extend to their balancing
\* brace; texts whose braces do not balance are left aside, and white space before the
\* parenthesis is allowed.
C17_UnregisteredCall ==
    \A d \in lastDiag :
        WellBraced(text[d]) =>
           \A p \in 1..Len(text[d]) :
              CountOf(diagnostics[d], "unregistered-operator", <<"token", p>>) =
                 IF UnregisteredCall(text[d], p, indexInfo.operators) THEN 1 ELSE 0

\* the fragment names defined in the .gorch documents of the workspace
FragmentsDefined ==
    UNION {Names(ParseFragments(d)) : d \in {e \in Range(GorchDocs) : disk[e]}}

\* C18: the diagnostics of a document hold exactly one fragment-not-found entry at every
\* UNFOLD whose fragment name is not in the index and none elsewhere; and the first
\* diagnostics run on a document after a rebuild has completed with success, every .gorch
\* document read, holds no fragment-not-found entry for a name that a document defines.
C18_DanglingFragment ==
    /\ \A d \in lastDiag :
          \A p \in 1..Len(text[d]) :
             CountOf(diagnostics[d], "fragment-not-found", <<"token", p>>) =
                IF text[d][p].k = "unfold" /\ text[d][p].arg \notin Names(indexInfo.fragments)
                THEN 1 ELSE 0
    /\ \A d \in Range(GorchDocs) :
          nextRun[d] = "first" =>
             \A n \in 1..Len(diagnostics[d]) :
                diagnostics[d][n].code = "fragment-not-found" =>
                   diagnostics[d][n].subject \notin FragmentsDefined

\* the places of the operators of d whose struct the index does not hold
MissingStructIn(ix, d) ==
    {j \in 1..Len(ix.operators) :
        /\ ix.operators[j].documentUri = d
        /\ ix.operators[j].structName \notin Names(ix.goStructs)}

\* C19: the diagnostics of a document hold exactly one go-struct-not-found entry for each
\* operator that the index attributes to the document and whose structName names no
\* struct of the index, and no other go-struct-not-found entry.
C19_MissingStruct ==
    \A d \in lastDiag :
        /\ \A j \in 1..Len(indexInfo.operators) :
              CountOf(diagnostics[d], "go-struct-not-found", <<"operator", j>>) =
                 IF j \in MissingStructIn(indexInfo, d) THEN 1 ELSE 0
        /\ CountCode(diagnostics[d], "go-struct-not-found") =
              Cardinality(MissingStructIn(indexInfo, d))

\* the diagnosed document has an operator whose struct is missing and one whose struct is
\* in the index; another document's operator with a missing struct would be the second
C19_Witness ==
    /\ lastDiag = {"a.gorch"}
    /\ Len(indexInfo.operators) = 2
    /\ indexInfo.operators[1].documentUri = "a.gorch"
    /\ indexInfo.operators[1].structName = "S3"
    /\ indexInfo.operators[2].documentUri = "b.gorch"
    /\ indexInfo.operators[2].structName = "S3"
    /\ CountCode(diagnostics["a.gorch"], "go-struct-not-found") = 1

\* the diagnostic is about a token that the text holds or an operator that the index holds
Current(diag, txt, ix) ==
    IF diag.at[1] = "token"
    THEN diag.at[2] \in 1..Len(txt) /\ diag.subject \in {txt[diag.at[2]].word, txt[diag.at[2]].arg}
    ELSE diag.at[2] \in 1..Len(ix.operators)

\* C20: a step that runs updateDiagnostics on a document d leaves as the diagnostics of d
\* the list that the checks compute from the index and the text of d as they are then,
\* every entry being about a token or an operator that is there, and leaves the
\* diagnostics of every other document as they were.
C20_ReplacedWholesale ==
    [][\A d \in Range(GorchDocs) :
          lastDiag' = {d} =>
             /\ diagnostics'[d] = Diagnose(indexInfo', text'[d], d)
             /\ \A n \in 1..Len(diagnostics'[d]) : Current(diagnostics'[d][n], text'[d], indexInfo')
             /\ \A e \in Range(GorchDocs) \ {d} : diagnostics'[e] = diagnostics[e]]_vars

\* an edit of a.gorch has left it without diagnostics though it has text, while b.gorch
\* keeps the diagnostics of its own run
C20_Witness ==
    /\ ev = "changed"
    /\ lastDiag = {"a.gorch"}
    /\ text["a.gorch"] # <<>>
    /\ diagnostics["a.gorch"] = <<>>
    /\ "b.gorch" \in open
    /\ diagnostics["b.gorch"] # <<>>

\* C21: a call that stands inside a registration block, the block reaching to the brace
\* that balances its opening brace, has no unregistered-operator entry: also a call
\* behind a nested pair of braces in the block's body.
C21_BalancedRanges ==
    \A d \in lastDiag :
        WellBraced(text[d]) =>
           \A p \in 1..Len(text[d]) :
              (text[d][p].k = "call" /\ OpenBlocks(text[d], p - 1) > 0) =>
                 CountOf(diagnostics[d], "unregistered-operator", <<"token", p>>) = 0

\* the tier is consulted somewhere before the place j of the log
ConsultedBefore(log, tier, j) == \E i \in 1..(j - 1) : log[i].tier = tier

\* the log keeps the priority of the tiers: the Go extension is asked first, the index
\* only after the Go extension, the scan only after the index, and nothing after a
\* consultation that found the struct
TiersInOrder(log) ==
    /\ log # <<>> => log[1].tier = "go-extension"
    /\ \A j \in 1..Len(log) :
          /\ log[j].tier = "index" => ConsultedBefore(log, "go-extension", j)
          /\ log[j].tier = "scan" => ConsultedBefore(log, "index", j)
          /\ j < Len(log) => ~log[j].found

\* the value returned is the location that the last consultation found, or no definition
\* after all three tiers found nothing
FirstSuccessWins(log, result) ==
    IF log # <<>> /\ log[Len(log)].found
    THEN result.via = (CASE log[Len(log)].tier = "go-extension" -> "go-extension"
                         [] log[Len(log)].tier = "index" -> "index"
                         [] log[Len(log)].tier = "scan" -> "real-time-scan")
    ELSE /\ result = NoLocation
         /\ {log[i].tier : i \in 1..Len(log)} = {"go-extension", "index", "scan"}

\* C22: a lookup from the struct name of an operator declaration that has returned
\* without an exception consulted the Go extension, then the index, then the scan of the
\* .go files, stopped at the first that found the struct and returned its location; with
\* no Go extension and no index entry, a location it returns is the scan's.
C22_StructTiers ==
    (nav.pc = "done" /\ nav.kind = "structArg" /\ nav.result # Failure) =>
        /\ nav.log # <<>>
        /\ TiersInOrder(nav.log)
        /\ FirstSuccessWins(nav.log, nav.result)
        /\ (~nav.tool /\ ~HasName(indexInfo.goStructs, nav.word) /\ nav.result # NoLocation) =>
              /\ nav.result.via = "real-time-scan"
              /\ nav.result.uri \in Range(DeclaringGoDocs(nav.word))

\* without the Go extension and with an index that lacks the struct, the scan found it
C22_Witness ==
    /\ nav.pc = "done"
    /\ nav.kind = "structArg"
    /\ ~nav.tool
    /\ ~HasName(indexInfo.goStructs, nav.word)
    /\ nav.result = Location("real-time-scan", "y.go")
    /\ Len(nav.log) = 4

\* C23: a lookup from an operator call outside every registration block that has returned
\* and has looked for the operator's struct consulted the Go extension first, the index
\* second and the scan third, and returned the first location found.
C23_CallTiers ==
    (nav.pc = "done" /\ nav.kind = "call" /\ ~nav.inBlock /\ nav.result # Failure
       /\ nav.log # <<>>) =>
        /\ TiersInOrder(nav.log)
        /\ FirstSuccessWins(nav.log, nav.result)

\* C24: provideDefinition ends with a location or with no definition, never with an
\* exception, whatever the cursor's context, the index and the workspace are.
C24_NeverAnError ==
    nav.pc = "done" => nav.result.via \in {"none", "go-extension", "index", "real-time-scan"}

RECURSIVE OpenBraces(_, _)
\* the kinds of the blocks that are open behind the j-th token, innermost last, by
\* balancing the braces; a closing brace with no block open leaves "unbalanced"
OpenBraces(txt, j) ==
    IF j = 0 THEN <<>>
    ELSE LET before == OpenBraces(txt, j - 1)
         IN CASE txt[j].k \in {"register", "fragment"} -> Append(before, txt[j].k)
              [] txt[j].k = "close" ->
                   IF before = <<>> \/ before[Len(before)] = "unbalanced"
                   THEN Append(before, "unbalanced")
                   ELSE SubSeq(before, 1, Len(before) - 1)
              [] OTHER -> before

\* every brace of the text has its partner
Balanced(txt) == OpenBraces(txt, Len(txt)) = <<>>

\* no block of the text holds braces of its own
Flat(txt) ==
    /\ Balanced(txt)
    /\ \A j \in 1..Len(txt) : Len(OpenBraces(txt, j)) <= 1 /\ txt[j].k # "nested"

\* the operator entries with n arguments or more that stand inside a registration block
\* of the text, the block reaching to its balancing brace
EntriesInBlocks(txt, n) ==
    Ascending({q \in 1..Len(txt) :
                 /\ txt[q].k = "entry"
                 /\ Len(txt[q].arg) >= n
                 /\ "register" \in Range(OpenBraces(txt, q - 1))})

\* the declaration of an entry: struct name second, sequence last, the name third of
\* four arguments and the struct name with three
Declared(tok, doc) ==
    [name |-> IF Len(tok.arg) = 4 THEN tok.arg[3] ELSE tok.arg[2],
     structName |-> tok.arg[2], sequence |-> tok.arg[Len(tok.arg)], documentUri |-> doc]

\* C25: of a document whose blocks hold no braces of their own, the index holds one
\* operator for every entry inside a registration block, with three arguments or with
\* four: named by its struct name for three arguments, by its third argument for four.
C25_BothForms ==
    \A d \in readLog.ok \cap Range(GorchDocs) :
        Flat(text[d]) =>
           OperatorsOf(indexInfo, d) =
              [n \in 1..Len(EntriesInBlocks(text[d], 3)) |->
                  Declared(text[d][EntriesInBlocks(text[d], 3)[n]], d)]

\* the line of the closing brace that balances the opening brace of the token at p
BalancingBrace(txt, p) ==
    CHOOSE j \in (p + 1)..Len(txt) :
        /\ Len(OpenBraces(txt, j)) < Len(OpenBraces(txt, p))
        /\ \A i \in (p + 1)..(j - 1) : Len(OpenBraces(txt, i)) >= Len(OpenBraces(txt, p))

\* C26: of a document with balanced braces, the index holds one operator for every
\* four-argument entry between a registration block's opening brace and its balancing
\* closing brace, also behind a nested pair of braces; and the end line of each of its
\* fragments is the line of the brace that balances the fragment's opening brace.
C26_BalancedExtents ==
    \A d \in readLog.ok \cap Range(GorchDocs) :
        Balanced(text[d]) =>
           /\ OperatorsOf(indexInfo, d) =
                 [n \in 1..Len(EntriesInBlocks(text[d], 4)) |->
                     Declared(text[d][EntriesInBlocks(text[d], 4)[n]], d)]
           /\ \A n \in 1..Len(FragmentsOf(indexInfo, d)) :
                 FragmentsOf(indexInfo, d)[n].endLine =
                    BalancingBrace(text[d], FragmentsOf(indexInfo, d)[n].startLine)

\* C27: a caller's adding to, removing from or reordering a list it got from an accessor
\* leaves the three lists of the index, which every later query reads, as they were.
C27_DefensiveCopies ==
    [][ev' = "mutate" => \A f \in ListFields : indexInfo'[f] = indexInfo[f]]_vars

\* C28: a rebuild that has been accepted ends, by success or by an exception, with the
\* busy flag cleared; the flag is never set while no rebuild is active, and a request
\* is rejected as busy only while a rebuild is active.
C28_NeverStuckBusy ==
    /\ (Active # {}) ~> (Active = {} /\ ~updateInProgress)
    /\ [](Active = {} => ~updateInProgress)
    /\ [][ev' \in {"rejected", "timerRejected"} => Active # {}]_vars

\* a rebuild has ended in the catch block and the flag is cleared
C28_Witness == ev = "failed" /\ Active = {} /\ ~updateInProgress

\* what the extractors find in the documents that exist, in the order of the listings
OnDisk ==
    [operators |-> Flatten([i \in 1..Len(Existing(GorchDocs)) |-> ParseOperators(Existing(GorchDocs)[i])]),
     fragments |-> Flatten([i \in 1..Len(Existing(GorchDocs)) |-> ParseFragments(Existing(GorchDocs)[i])]),
     goStructs |-> Flatten([i \in 1..Len(Existing(GoDocs)) |-> ParseGoStructs(Existing(GoDocs)[i])])]

\* a notification has just been received, no rebuild being active
NotifiedIdle == ev = "notify" /\ ~updateInProgress
\* a notification has just been received during a rebuild
NotifiedBusy == ev = "notify" /\ updateInProgress
\* a rebuild has just started
Started == ev \in {"timerStart", "manualStart"}
\* a listing or a read of a rebuild has just failed
Trouble ==
    \/ ev \in {"failed", "readFailed"}
    \/ ev = "succeeded" /\ (~GoListed(returned.errors) \/ readLog.failed # {})

C30_SuccessTriggersDiagnostics ==
    [][/\ ev' = "succeeded" =>
             /\ lastDiag' = open
             /\ \A d \in open : diagnostics'[d] = Diagnose(indexInfo', text[d], d)
             /\ \A d \in Range(GorchDocs) \ open : diagnostics'[d] = diagnostics[d]
       /\ ev' \in {"failed", "rejected"} => lastDiag' = {} /\ diagnostics' = diagnostics]_vars

\* a rebuild has returned success with both documents open, and the diagnostics of one
\* are not empty
C30_Witness ==
    /\ ev = "succeeded"
    /\ open = Range(GorchDocs)
    /\ lastDiag = open
    /\ \E d \in open : diagnostics[d] # <<>> /\ diagnostics[d] = Diagnose(indexInfo, text[d], d)

====
